---- MODULE Spec2Model ----
(***************************************************************************)
(* Model of the kazuki VS Code extension.                                  *)
(*                                                                         *)
(* Part 1: UnusedImportsManager (command kazuki.removeUnusedImports).      *)
(* A source text is a sequence of tokens; every token occupies one offset  *)
(* unit, so the token at index i (1-based) covers offsets [i-1, i).        *)
(* Offsets, lines and positions are 0-based as in TypeScript and VS Code.  *)
(***************************************************************************)
EXTENDS Integers, Sequences, FiniteSets, Bags, TLC

\* ------------------------------------------------------------------ bounds

\* Largest number of statements in the generated part of an input text.
MaxStmts == 2

\* Largest number of invocations of the command on one document.
MaxRuns == 2

\* ------------------------------------------------------------------ tokens

Tok(k, n, p) == [k |-> k, n |-> n, p |-> p]

KwImport     == Tok("import", "", "")     \* the `import` keyword
Default(n)   == Tok("default", n, "")     \* default binding: import n ...
Named(n)     == Tok("named", n, "")       \* named specifier: { n }
Alias(p, n)  == Tok("named", n, p)        \* aliased specifier: { p as n }
NsImport(n)  == Tok("ns", n, "")          \* namespace binding: * as n
EmptyNamed   == Tok("empty", "", "")      \* named bindings without elements: {}
Module       == Tok("module", "", "")     \* [from] "module";  closes the statement
Ident(n)     == Tok("id", n, "")          \* an identifier outside import statements
PropAccess(o, m) == Tok("access", o, m)   \* property access o.m outside imports
JsxSelf(n)   == Tok("jsxself", n, "")     \* self-closing element <n />
JsxOpen(n)   == Tok("jsxopen", n, "")     \* opening element <n>
Other        == Tok("other", "", "")      \* any other token (keyword, punctuation)
NL           == Tok("nl", "", "")         \* line terminator "\n"
SP           == Tok("sp", "", "")         \* other trivia: blanks, a comment

TriviaKinds  == {"nl", "sp"}
BindingKinds == {"default", "named", "ns", "empty"}

Min(S) == CHOOSE x \in S : \A y \in S : x <= y
Max(S) == CHOOSE x \in S : \A y \in S : x >= y

Elems(s) == {s[i] : i \in 1..Len(s)}

\* ----------------------------------------------- the syntax tree (TypeScript)

\* The first token after the keyword at index i that is neither a binding nor
\* trivia: the module specifier of a well-formed statement.
Closer(t, i) ==
    LET S == {j \in (i + 1)..Len(t) : t[j].k \notin (BindingKinds \cup TriviaKinds)}
    IN  IF S = {} THEN Len(t) + 1 ELSE Min(S)

\* Index of the last token of the import statement whose keyword is at index i.
\* A statement cut short (no module specifier follows its clause) ends with the
\* last token of its clause: the parser is error tolerant.
EndIdx(t, i) ==
    LET c == Closer(t, i)
    IN  IF c <= Len(t) /\ t[c].k = "module"
        THEN c
        ELSE Max({j \in i..(c - 1) : t[j].k \notin TriviaKinds})

\* node.getFullStart(): the end of the previous token, so the node's leading
\* trivia (line terminators, blanks, comments) belongs to the node.
FullStart(t, i) ==
    LET P == {j \in 1..(i - 1) : t[j].k \notin TriviaKinds}
    IN  IF P = {} THEN 0 ELSE Max(P)

\* The binding tokens of the clause of the import statement at index i, in order.
Clause(t, i) ==
    SelectSeq(SubSeq(t, i + 1, EndIdx(t, i)), LAMBDA x : x.k \in BindingKinds)

ImportNode(t, i) ==
    [kind |-> "ImportDeclaration", pos |-> FullStart(t, i), start |-> i - 1,
     end |-> EndIdx(t, i), clause |-> Clause(t, i), text |-> ""]

IdentNode(t, i, name) ==
    [kind |-> "Identifier", pos |-> FullStart(t, i), start |-> i - 1,
     end |-> i, clause |-> <<>>, text |-> name]

OtherNode(t, i) ==
    [kind |-> "Other", pos |-> FullStart(t, i), start |-> i - 1,
     end |-> i, clause |-> <<>>, text |-> ""]

\* An element of markup syntax; `text` is its tag name, a plain identifier.
JsxNode(t, i, kind) ==
    [kind |-> kind, pos |-> FullStart(t, i), start |-> i - 1,
     end |-> i, clause |-> <<>>, text |-> t[i].n]

JsxKinds == {"JsxSelfClosingElement", "JsxOpeningElement"}

\* The nodes a token outside import statements contributes. Specifier tokens
\* left behind without their `import` keyword are read as plain identifiers.
LooseNodes(t, i) ==
    CASE t[i].k = "id" -> <<IdentNode(t, i, t[i].n)>>
      [] t[i].k \in {"default", "ns"} -> <<IdentNode(t, i, t[i].n)>>
      [] t[i].k = "named" ->
            IF t[i].p = "" THEN <<IdentNode(t, i, t[i].n)>>
            ELSE <<IdentNode(t, i, t[i].p), IdentNode(t, i, t[i].n)>>
      [] t[i].k = "access" -> <<IdentNode(t, i, t[i].n), IdentNode(t, i, t[i].p)>>
      [] t[i].k = "jsxself" -> <<JsxNode(t, i, "JsxSelfClosingElement")>>
      [] t[i].k = "jsxopen" -> <<JsxNode(t, i, "JsxOpeningElement")>>
      [] OTHER -> <<OtherNode(t, i)>>

RECURSIVE ParseFrom(_, _)
ParseFrom(t, i) ==
    IF i > Len(t) THEN <<>>
    ELSE IF t[i].k \in TriviaKinds THEN ParseFrom(t, i + 1)
    ELSE IF t[i].k = "import"
         THEN <<ImportNode(t, i)>> \o ParseFrom(t, EndIdx(t, i) + 1)
         ELSE LooseNodes(t, i) \o ParseFrom(t, i + 1)

\* getScriptKind(languageId): includes('jsx') || includes('react') selects the
\* markup-enabled kind of the language.
getScriptKind(l) ==
    IF l \in {"javascriptreact", "typescriptreact"}
    THEN (IF l = "typescriptreact" THEN "TSX" ELSE "JSX")
    ELSE (IF l = "typescript" THEN "TS" ELSE "JS")

\* Script kinds the parser reads markup syntax in: every kind but TS, where
\* <n> opens a type assertion and n is the identifier of a type reference.
MarkupKinds == {"TSX", "JSX", "JS"}

\* ts.createSourceFile: the nodes of the file in source order.
createSourceFile(l, t) ==
    LET nodes == ParseFrom(t, 1)
    IN  [i \in 1..Len(nodes) |->
            IF nodes[i].kind \in JsxKinds /\ getScriptKind(l) \notin MarkupKinds
            THEN [nodes[i] EXCEPT !.kind = "Identifier"]
            ELSE nodes[i]]

\* ------------------------------------------------------ import extraction

\* Mutant: a namespace binding records no name.
BindingNamesNoNamespace(b) ==
    CASE b.k = "default" -> <<b.n>>
      [] b.k = "named"   -> IF b.p = "" THEN <<b.n>> ELSE <<b.n, b.p>>
      [] OTHER           -> <<>>

\* Mutant: the original name of an aliased specifier is not recorded.
BindingNamesLocalOnly(b) ==
    CASE b.k \in {"default", "named", "ns"} -> <<b.n>>
      [] OTHER -> <<>>

\* The names one binding of an import clause contributes.
BindingNames(b) ==
    CASE b.k = "default" -> <<b.n>>
      [] b.k = "named"   -> IF b.p = "" THEN <<b.n>> ELSE <<b.n, b.p>>
      [] b.k = "ns"      -> <<b.n>>
      [] OTHER           -> <<>>

RECURSIVE ClauseNames(_)
ClauseNames(c) ==
    IF c = <<>> THEN <<>> ELSE BindingNames(Head(c)) \o ClauseNames(Tail(c))

ImportRecord(node) ==
    [node |-> node.start, importedNames |-> ClauseNames(node.clause),
     start |-> node.pos, end |-> node.end]

\* Mutant: a statement without an import clause yields no record.
collectImportsWithClause(sf) ==
    LET s == SelectSeq(sf, LAMBDA n : n.kind = "ImportDeclaration" /\ n.clause # <<>>)
    IN  [i \in 1..Len(s) |-> ImportRecord(s[i])]

RECURSIVE collectImports(_)
collectImports(sf) ==
    IF sf = <<>> THEN <<>>
    ELSE IF Head(sf).kind = "ImportDeclaration"
         THEN <<ImportRecord(Head(sf))>> \o collectImports(Tail(sf))
         ELSE collectImports(Tail(sf))

\* ------------------------------------------------------- usage collection

\* Mutant: the subtree of a markup element is not visited.
collectUsedIdentifiersNoJsx(sf) ==
    {sf[i].text : i \in {j \in 1..Len(sf) : sf[j].kind = "Identifier"}}

\* Mutant: the traversal does not return at an import declaration, so the
\* names its clause binds are visited like any identifier.
collectUsedIdentifiersAllNodes(sf) ==
    {sf[i].text : i \in {j \in 1..Len(sf) : sf[j].kind = "Identifier"}}
    \cup {sf[i].text : i \in {j \in 1..Len(sf) : sf[j].kind \in JsxKinds}}
    \cup UNION {{sf[i].clause[k].n : k \in 1..Len(sf[i].clause)} :
                    i \in {j \in 1..Len(sf) : sf[j].kind = "ImportDeclaration"}}

\* Every identifier outside import statements; the tag name of an opening or
\* self-closing element is an identifier child of the element and is also
\* added by the branch of lines 155-161.
collectUsedIdentifiers(sf) ==
    {sf[i].text : i \in {j \in 1..Len(sf) : sf[j].kind = "Identifier"}}
    \cup {sf[i].text : i \in {j \in 1..Len(sf) : sf[j].kind \in JsxKinds}}

\* ------------------------------------------------------------ resolution

\* Mutant: the number of line terminators before start, without the + 1.
LineOfZeroBased(t, start) ==
    Cardinality({j \in 1..start : t[j].k = "nl"})

\* text.substring(0, start).split('\n').length
LineOf(t, start) ==
    Cardinality({j \in 1..start : t[j].k = "nl"}) + 1

\* Mutant: `every` in place of `some`.
IsUsedEvery(importedNames, usedIdentifiers) ==
    \A i \in 1..Len(importedNames) : importedNames[i] \in usedIdentifiers

\* importedNames.some(name => usedIdentifiers.has(name))
IsUsed(importedNames, usedIdentifiers) ==
    \E i \in 1..Len(importedNames) : importedNames[i] \in usedIdentifiers

\* Mutant: the side-effect check is missing.
NeverSideEffect(importInfo) == FALSE

\* Whether the loop body skips the record (the side-effect check).
IsSideEffect(importInfo) == Len(importInfo.importedNames) = 0

Finding(importInfo, t) ==
    [start |-> importInfo.start, end |-> importInfo.end,
     importName |-> importInfo.importedNames,   \* the names join(', ') lists
     line |-> LineOf(t, importInfo.start)]

RECURSIVE filterUnusedImports(_, _, _)
filterUnusedImports(imps, usedIdentifiers, t) ==
    IF imps = <<>> THEN <<>>
    ELSE LET importInfo == Head(imps)
             rest == filterUnusedImports(Tail(imps), usedIdentifiers, t)
         IN  IF IsSideEffect(importInfo) THEN rest
             ELSE IF ~IsUsed(importInfo.importedNames, usedIdentifiers)
                  THEN <<Finding(importInfo, t)>> \o rest
                  ELSE rest

findUnusedImports(sf, t) ==
    filterUnusedImports(collectImports(sf), collectUsedIdentifiers(sf), t)

\* ------------------------------------------------------ the text document

LineCount(t) == Cardinality({j \in 1..Len(t) : t[j].k = "nl"}) + 1

\* Offset of the first character of line l (0-based).
LineStart(t, l) ==
    IF l = 0 THEN 0
    ELSE Min({j \in 1..Len(t) :
                /\ t[j].k = "nl"
                /\ Cardinality({i \in 1..j : t[i].k = "nl"}) = l})

\* Offset just after the last character of line l, its terminator excluded.
LineEnd(t, l) ==
    IF l + 1 < LineCount(t) THEN LineStart(t, l + 1) - 1 ELSE Len(t)

\* document.positionAt(offset)
positionAt(t, offset) ==
    LET l == Cardinality({j \in 1..offset : t[j].k = "nl"})
    IN  [line |-> l, character |-> offset - LineStart(t, l)]

\* document.offsetAt(position); positions outside the text are clamped.
offsetAt(t, pos) ==
    IF pos.line >= LineCount(t) THEN Len(t)
    ELSE LET o == LineStart(t, pos.line) + pos.character
         IN  IF o > LineEnd(t, pos.line) THEN LineEnd(t, pos.line) ELSE o

\* Mutant: the line's range without its terminator (line.range).
rangeOfLine(t, l) ==
    [start |-> [line |-> l, character |-> 0],
     end   |-> [line |-> l, character |-> LineEnd(t, l) - LineStart(t, l)]]

\* document.lineAt(l).rangeIncludingLineBreak
rangeIncludingLineBreak(t, l) ==
    [start |-> [line |-> l, character |-> 0],
     end   |-> IF l + 1 < LineCount(t)
               THEN [line |-> l + 1, character |-> 0]
               ELSE [line |-> l, character |-> LineEnd(t, l) - LineStart(t, l)]]

\* ------------------------------------------------------------ edit planning

\* Mutant: the comparator a.start - b.start, an ascending sort.
BeforeAscending(a, b) == a.start < b.start

\* The comparator of the sort: b.start - a.start < 0, a stays before b.
Before(a, b) == a.start > b.start

\* Index of the element the sort puts first.
FirstOf(s) ==
    CHOOSE i \in 1..Len(s) :
        /\ \A j \in 1..Len(s) : ~Before(s[j], s[i])
        /\ \A j \in 1..(i - 1) : Before(s[i], s[j])

RECURSIVE SortFindings(_)
SortFindings(s) ==
    IF s = <<>> THEN <<>>
    ELSE LET i == FirstOf(s)
         IN  <<s[i]>> \o SortFindings(SubSeq(s, 1, i - 1) \o SubSeq(s, i + 1, Len(s)))

\* The range deleted for one finding.
DeletionRange(t, unusedImport) ==
    LET startPos == positionAt(t, unusedImport.start)
    IN  rangeIncludingLineBreak(t, startPos.line)

\* The deletions applyRemovalEdits adds to the WorkspaceEdit, in order.
PlanEdits(t, sorted) ==
    [i \in 1..Len(sorted) |-> DeletionRange(t, sorted[i])]

\* ------------------------------------------------- the host applying edits

\* Offsets (0-based) a range covers in text t.
Covered(t, r) ==
    LET from == offsetAt(t, r.start)
        to   == offsetAt(t, r.end)
    IN  {o \in 0..(Len(t) - 1) : from <= o /\ o < to}

Deleted(t, edits) == UNION {Covered(t, edits[i]) : i \in 1..Len(edits)}

\* The text without the offsets in D.
RECURSIVE Keep(_, _, _)
Keep(t, D, i) ==
    IF i > Len(t) THEN <<>>
    ELSE IF (i - 1) \in D THEN Keep(t, D, i + 1)
         ELSE <<t[i]>> \o Keep(t, D, i + 1)

\* All edits of a batch refer to the text as it was before the batch.
ApplyBatch(t, edits) == Keep(t, Deleted(t, edits), 1)

\* ------------------------------------------------------------------ inputs

\* Statements the generated texts are made of.
Statements ==
    { <<KwImport, Default("a"), Module>>,               \* import a from "m";
      <<KwImport, Alias("a", "b"), Module>>,            \* import { a as b } from "m";
      <<KwImport, NL, Named("a"), Named("b"), Module>>, \* import {\n a, b } from "m";
      <<KwImport, NsImport("b"), Module>>,              \* import * as b from "m";
      <<KwImport, Module>>,                             \* import "m";
      <<Ident("b")>> }                                  \* b;

\* What separates a statement from the next: a line terminator or a blank.
Separators == { <<NL>>, <<SP>> }

\* What a text starts with: nothing, or a comment line.
Preludes == { <<>>, <<SP, NL>> }

\* The last line: the identifiers it uses.
Tails == { <<>>, <<Ident("a")>>, <<Ident("a"), Other, Ident("b")>>,
           <<PropAccess("b", "c")>> }

RECURSIVE Bodies(_)
Bodies(k) ==
    IF k = 0 THEN {<<>>}
    ELSE LET B == Bodies(k - 1)
         IN  B \cup {st \o sep \o b : st \in Statements, sep \in Separators, b \in B}

GenTexts == {p \o b \o tl : p \in Preludes, b \in Bodies(MaxStmts), tl \in Tails}

\* The end-to-end scenario:
\*   import React from "react";
\*   import { useState, useEffect } from "react";
\*   import "./styles.css";
\*   function App() { return useState; }
EndToEndText ==
    <<KwImport, Default("React"), Module, NL,
      KwImport, Named("useState"), Named("useEffect"), Module, NL,
      KwImport, Module, NL,
      Other, Ident("App"), Other, Other, Ident("useState"), Other>>

\* Three unused imports on two lines.
ThreeImports ==
    <<KwImport, Default("a"), Module, NL,
      KwImport, Default("b"), Module, SP,
      KwImport, Default("c"), Module, NL>>

SupportedIds == {"javascript", "typescript", "javascriptreact", "typescriptreact"}

LanguageIds == SupportedIds \cup {"python"}

\* Markup:  import Widget from "m";  import Panel from "m";
\*          import Box from "m";  <Panel>  <Widget />
MarkupText ==
    <<KwImport, Default("Widget"), Module, NL,
      KwImport, Default("Panel"), Module, NL,
      KwImport, Default("Box"), Module, NL,
      JsxOpen("Panel"), JsxSelf("Widget")>>

\* A clause without names:  import {} from "m";  import a from "m";
EmptyClauseText ==
    <<KwImport, EmptyNamed, Module, NL,
      KwImport, Default("a"), Module, NL>>

SmallTexts == {EndToEndText, ThreeImports, MarkupText, EmptyClauseText}

\* What the command can find when it is invoked: no active editor, or an editor
\* on a document of some language.
\* `parses` tells whether the parser returns a tree for the text or throws.
Inputs ==
    {[editor |-> TRUE, languageId |-> "typescript", doc |-> t, parses |-> TRUE] : t \in GenTexts}
    \cup {[editor |-> TRUE, languageId |-> l, doc |-> t, parses |-> TRUE] :
                l \in LanguageIds, t \in SmallTexts}
    \cup {[editor |-> TRUE, languageId |-> "typescript", doc |-> t, parses |-> FALSE] :
                t \in SmallTexts}
    \cup {[editor |-> FALSE, languageId |-> "", doc |-> <<>>, parses |-> TRUE]}

\* ------------------------------------------------------------------- state

VARIABLES
    editor,           \* whether vscode.window.activeTextEditor is defined
    languageId,       \* document.languageId
    doc,              \* the document's current text
    pc,               \* where removeUnusedImportsHandler stands
    text,             \* the handler's snapshot, document.getText()
    imports,          \* what collectImports returned
    usedIdentifiers,  \* what collectUsedIdentifiers returned
    found,            \* what findUnusedImports returned
    unusedImports,    \* the same array as applyRemovalEdits leaves it
    edit,             \* the WorkspaceEdit: its deletions in the order added
    applied,          \* how the host's applyEdit ended: "none" before it did
    message,          \* the message last shown to the user
    run,              \* number of the current invocation
    prev,             \* how applyEdit ended in the previous invocation
    parses,           \* whether ts.createSourceFile returns a tree for the text
    count,            \* the N of the message "Removed N unused import(s)"
    errorMessage,     \* the error.message of the message "Error processing file: ..."
    applyCalls,       \* calls of vscode.workspace.applyEdit in this invocation
    writes            \* changes made to the document in this invocation

vars == <<editor, languageId, doc, pc, text, imports, usedIdentifiers, found,
          unusedImports, edit, applied, message, run, prev, parses, count,
          errorMessage, applyCalls, writes>>

\* ------------------------------------------- state of the other two parts

\* Part 2, AutoCloseTabsManager.
VARIABLES
    enabled,                    \* the setting kazuki.autoCloseTabs.enabled
    activeEditorChangeListener, \* the field: TRUE when it holds a Disposable
    listeners,                  \* listeners registered with onDidChangeActiveTextEditor
    closeTimeout,               \* the field: a timer handle, 0 for undefined
    currentActiveEditor,        \* the field: <<group, tab>>, <<>> for undefined
    timers,                     \* the timers that are pending: [id, editor]
    nextTimer,                  \* the handles setTimeout has returned so far
    closing,                    \* closeOtherTabs invocations, by the timer that made them
    handlers,                   \* the command handlers suspended at their await, a bag
    completed,                  \* the command handler that returned last
    disposed,                   \* whether dispose() has run
    tabs,                       \* vscode.window.tabGroups: the tabs of every group
    active,                     \* the active tab of every group, 0 for an empty group
    fired,                      \* handles of the timers that ran their callback
    cancelled                   \* handles of the timers clearTimeout removed

tabsVars == <<enabled, activeEditorChangeListener, listeners, closeTimeout,
              currentActiveEditor, timers, nextTimer, closing, handlers, completed,
              disposed, tabs, active, fired, cancelled>>

\* Part 3, FolderGeneratorManager.createFolderStructure.
VARIABLES
    structure,      \* the argument: the entries [key, children] in insertion order
    createdPaths,   \* the set createdPaths
    queue,          \* the work queue: [element, path]
    outer,          \* entries of orderedStructure the for loop has taken
    itemName,       \* the key of the entry the for loop is at
    dirs,           \* the directories of the file system, as paths
    files,          \* the files of the file system, as paths
    fpc,            \* where createFolderStructure stands
    processed,      \* the elements that got past the createdPaths check, in order
    errors          \* the kinds of error the catch block of the loop has logged

folderVars == <<structure, createdPaths, queue, outer, itemName, dirs, files, fpc,
                processed, errors>>

allVars == <<vars, tabsVars, folderVars>>

\* No command handler has returned yet.
NoHandler == [cmd |-> "none", before |-> FALSE, after |-> FALSE, listening |-> 0,
              closes |-> 0]

\* The manager and the generator before anything is constructed or called.
TabsIdle ==
    /\ enabled = FALSE
    /\ activeEditorChangeListener = FALSE
    /\ listeners = 0
    /\ closeTimeout = 0
    /\ currentActiveEditor = <<>>
    /\ timers = {}
    /\ nextTimer = 0
    /\ closing = <<>>
    /\ handlers = EmptyBag
    /\ completed = NoHandler
    /\ disposed = FALSE
    /\ tabs = <<>>
    /\ active = <<>>
    /\ fired = {}
    /\ cancelled = {}

FolderIdle ==
    /\ structure = <<>>
    /\ createdPaths = {}
    /\ queue = <<>>
    /\ outer = 0
    /\ itemName = <<>>
    /\ dirs = {}
    /\ files = {}
    /\ fpc = "idle"
    /\ processed = <<>>
    /\ errors = {}

MsgNone        == "none"
MsgNoEditor    == "No active editor found"
MsgUnsupported == "This command only works with JavaScript/TypeScript files"
MsgNoUnused    == "No unused imports found"
MsgRemoved     == "Removed N unused import(s)"   \* N = unusedImports.length
MsgError       == "Error processing file"

\* Mutant: the list of supported ids lacks the markup-enabled variants.
isSupportedFileScriptsOnly(l) == l \in {"javascript", "typescript"}

isSupportedFile(l) == l \in SupportedIds

\* What the parser and the host throw.
ParserMessage == "the parser's message"
ApplyMessage  == "the host's message"

\* Mutant: the catch block shows a message without the error's.
ErrorShownBare(error) == ""

\* Line 57: the text of the caught error, shown after "Error processing file: ".
ErrorShown(error) == error

\* Mutant: the handler goes on to applyRemovalEdits whatever the length.
AlwaysRemoves(res) == TRUE

\* Line 48, negated: there is something to remove.
HasFindings(res) == Len(res) # 0

\* Mutant: applyEdit is called in the loop, once for every finding.
ApplyCallsInLoop(n) == n

\* Line 227: applyEdit is called once, after the loop over n findings.
ApplyCalls(n) == 1

Init ==
    /\ \E in \in Inputs :
        /\ editor = in.editor
        /\ languageId = in.languageId
        /\ doc = in.doc
        /\ parses = in.parses
    /\ pc = "idle"
    /\ text = <<>>
    /\ imports = <<>>
    /\ usedIdentifiers = {}
    /\ found = <<>>
    /\ unusedImports = <<>>
    /\ edit = <<>>
    /\ applied = "none"
    /\ message = MsgNone
    /\ run = 1
    /\ prev = "none"
    /\ count = 0
    /\ errorMessage = ""
    /\ applyCalls = 0
    /\ writes = 0
    /\ TabsIdle
    /\ FolderIdle

shown == <<count, errorMessage>>

analysis == <<text, imports, usedIdentifiers, found, unusedImports, edit>>

\* removeUnusedImportsHandler, lines 28-33: no active editor.
NoEditor ==
    /\ pc = "idle"
    /\ ~editor
    /\ message' = MsgNoEditor
    /\ pc' = "done"
    /\ UNCHANGED <<editor, languageId, doc, analysis, applied, run, prev, parses,
                   shown, applyCalls, writes>>
    /\ UNCHANGED <<tabsVars, folderVars>>

\* removeUnusedImportsHandler, lines 35-40: the language is not supported.
Unsupported ==
    /\ pc = "idle"
    /\ editor
    /\ ~isSupportedFile(languageId)
    /\ message' = MsgUnsupported
    /\ pc' = "done"
    /\ UNCHANGED <<editor, languageId, doc, analysis, applied, run, prev, parses,
                   shown, applyCalls, writes>>
    /\ UNCHANGED <<tabsVars, folderVars>>

\* removeUnusedImportsHandler, lines 42-51: the analysis finds nothing.
NothingFound ==
    /\ pc = "idle"
    /\ editor
    /\ isSupportedFile(languageId)
    /\ parses
    /\ LET sf == createSourceFile(languageId, doc)
       IN  /\ ~HasFindings(findUnusedImports(sf, doc))
           /\ text' = doc
           /\ imports' = collectImports(sf)
           /\ usedIdentifiers' = collectUsedIdentifiers(sf)
           /\ found' = <<>>
    /\ message' = MsgNoUnused
    /\ pc' = "done"
    /\ UNCHANGED <<editor, languageId, doc, unusedImports, edit, applied, run, prev,
                   parses, shown, applyCalls, writes>>
    /\ UNCHANGED <<tabsVars, folderVars>>

\* removeUnusedImportsHandler, lines 42-45 and 56-58: createSourceFile throws
\* and the catch block shows the error.
ParseThrew ==
    /\ pc = "idle"
    /\ editor
    /\ isSupportedFile(languageId)
    /\ ~parses
    /\ text' = doc
    /\ message' = MsgError
    /\ errorMessage' = ErrorShown(ParserMessage)
    /\ pc' = "done"
    /\ UNCHANGED <<editor, languageId, doc, imports, usedIdentifiers, found,
                   unusedImports, edit, applied, run, prev, parses, count,
                   applyCalls, writes>>
    /\ UNCHANGED <<tabsVars, folderVars>>

\* removeUnusedImportsHandler, lines 42-53, and applyRemovalEdits up to its
\* await: the findings are sorted in place, one deletion is added per finding
\* and the batch is handed to the host.
PlanRemoval ==
    /\ pc = "idle"
    /\ editor
    /\ isSupportedFile(languageId)
    /\ parses
    /\ LET sf == createSourceFile(languageId, doc)
           res == findUnusedImports(sf, doc)
           sorted == SortFindings(res)
       IN  /\ HasFindings(res)
           /\ text' = doc
           /\ imports' = collectImports(sf)
           /\ usedIdentifiers' = collectUsedIdentifiers(sf)
           /\ found' = res
           /\ unusedImports' = sorted
           /\ edit' = PlanEdits(doc, sorted)
           /\ applyCalls' = applyCalls + ApplyCalls(Len(sorted))
    /\ pc' = "applying"
    /\ UNCHANGED <<editor, languageId, doc, applied, message, run, prev, parses,
                   shown, writes>>
    /\ UNCHANGED <<tabsVars, folderVars>>

\* vscode.workspace.applyEdit resolves true: every deletion has been made, all
\* of them in the coordinates of the text before the batch. Whether the host
\* accepts a batch with overlapping deletions is not decided by this code: for
\* every batch the host may apply it (here), refuse it or fail.
ApplyOk ==
    /\ pc = "applying"
    /\ doc' = ApplyBatch(doc, edit)
    /\ writes' = writes + 1
    /\ applied' = "ok"
    /\ message' = MsgRemoved
    /\ count' = Len(unusedImports)
    /\ pc' = "done"
    /\ UNCHANGED <<editor, languageId, analysis, run, prev, parses, errorMessage,
                   applyCalls>>
    /\ UNCHANGED <<tabsVars, folderVars>>

\* vscode.workspace.applyEdit resolves false: the host made no change. The
\* handler does not look at the value (line 53) and goes on to line 54.
ApplyRefused ==
    /\ pc = "applying"
    /\ applied' = "refused"
    /\ message' = MsgRemoved
    /\ count' = Len(unusedImports)
    /\ pc' = "done"
    /\ UNCHANGED <<editor, languageId, doc, analysis, run, prev, parses,
                   errorMessage, applyCalls, writes>>
    /\ UNCHANGED <<tabsVars, folderVars>>

\* vscode.workspace.applyEdit rejects: the handler's catch shows the error.
ApplyThrew ==
    /\ pc = "applying"
    /\ applied' = "threw"
    /\ message' = MsgError
    /\ errorMessage' = ErrorShown(ApplyMessage)
    /\ pc' = "done"
    /\ UNCHANGED <<editor, languageId, doc, analysis, run, prev, parses, count,
                   applyCalls, writes>>
    /\ UNCHANGED <<tabsVars, folderVars>>

\* The user invokes the command again on the same document.
Reinvoke ==
    /\ pc = "done"
    /\ run < MaxRuns
    /\ run' = run + 1
    /\ prev' = applied
    /\ pc' = "idle"
    /\ text' = <<>>
    /\ imports' = <<>>
    /\ usedIdentifiers' = {}
    /\ found' = <<>>
    /\ unusedImports' = <<>>
    /\ edit' = <<>>
    /\ applied' = "none"
    /\ message' = MsgNone
    /\ count' = 0
    /\ errorMessage' = ""
    /\ applyCalls' = 0
    /\ writes' = 0
    /\ UNCHANGED <<editor, languageId, doc, parses>>
    /\ UNCHANGED <<tabsVars, folderVars>>

Next ==
    \/ NoEditor
    \/ Unsupported
    \/ NothingFound
    \/ ParseThrew
    \/ PlanRemoval
    \/ ApplyOk
    \/ ApplyRefused
    \/ ApplyThrew
    \/ Reinvoke

Spec == Init /\ [][Next]_vars

\* ------------------------------------------------------------------ claims

\* The handler has analysed its snapshot `text` in the current invocation.
Analysed == pc # "idle" /\ editor /\ isSupportedFile(languageId) /\ parses

\* The handler has planned a batch in the current invocation.
Planned == pc \in {"applying", "done"} /\ found # <<>>

\* The import record a finding was made from.
RecordOf(f) == CHOOSE r \in Elems(imports) : r.start = f.start

\* Offsets of the statement of record r, from its `import` keyword to its end.
StatementOffsets(r) == r.node..(r.end - 1)

\* Whether the record is flagged, by the definition of the data model: its
\* names are not empty and none of them is in the usage set.
Flagged(r) ==
    /\ Elems(r.importedNames) # {}
    /\ Elems(r.importedNames) \cap usedIdentifiers = {}

\* C1: an import statement that is not flagged (one of its names is in the
\* usage set, or it is a side-effect import) is untouched by the applied batch:
\* none of its characters is deleted.
C1_NeverOverDeletes ==
    (Analysed /\ applied = "ok") =>
        \A r \in Elems(imports) :
            ~Flagged(r) => StatementOffsets(r) \cap Deleted(text, edit) = {}

\* C2: findUnusedImports returns, in ascending order of start offset, exactly
\* one finding for each record whose names are not empty and all absent from
\* the usage set, and no other finding.
C2_FindingsExact ==
    Analysed =>
        /\ {f.start : f \in Elems(found)} = {r.start : r \in {x \in Elems(imports) : Flagged(x)}}
        /\ \A k \in 1..Len(found) : found[k].end = RecordOf(found[k]).end
        /\ \A k, l \in 1..Len(found) : k < l => found[k].start < found[l].start

\* C2 witness: one statement is kept although one of its two names is unused,
\* another is flagged.
C2_Witness ==
    /\ Analysed
    /\ Len(found) >= 1
    /\ \E r \in Elems(imports) :
        /\ ~Flagged(r)
        /\ \E n \in Elems(r.importedNames) : n \notin usedIdentifiers
        /\ \E n \in Elems(r.importedNames) : n \in usedIdentifiers

\* C3: the range deleted for a finding is the whole line, terminator included,
\* on which the `import` keyword of the finding's statement is written.
C3_DeletesLineOfImport ==
    Planned =>
        \A k \in 1..Len(unusedImports) :
            edit[k] = rangeIncludingLineBreak(text,
                          positionAt(text, RecordOf(unusedImports[k]).node).line)

\* C4: once the batch is applied, every character of every flagged statement,
\* from its `import` keyword to its end, is deleted.
C4_WholeStatementDeleted ==
    (Planned /\ applied = "ok") =>
        \A f \in Elems(found) :
            StatementOffsets(RecordOf(f)) \subseteq Deleted(text, edit)

\* The text a single deletion leaves, and the content it removes.
DeleteOne(t, r) == Keep(t, Covered(t, r), 1)
RemovedBy(t, r) == SubSeq(t, offsetAt(t, r.start) + 1, offsetAt(t, r.end))

\* The text after the first k deletions of the batch, applied one after another.
RECURSIVE TextAfter(_, _, _)
TextAfter(t, edits, k) ==
    IF k = 0 THEN t ELSE DeleteOne(TextAfter(t, edits, k - 1), edits[k])

\* C5: applied one after another in batch order to the shrinking text, every
\* deletion removes the content its range designates in the original text.
C5_SequentialApplication ==
    Planned =>
        \A k \in 1..Len(edit) :
            RemovedBy(TextAfter(text, edit, k - 1), edit[k]) = RemovedBy(text, edit[k])

\* The finding with exactly k - 1 findings starting after it.
KthLast(k) ==
    CHOOSE f \in Elems(found) :
        Cardinality({g \in Elems(found) : g.start > f.start}) = k - 1

\* C6: the batch holds one deletion per finding, added in strictly descending
\* order of the findings' start offsets.
C6_DescendingBatch ==
    Planned =>
        /\ Len(edit) = Len(found)
        /\ Len(unusedImports) = Len(found)
        /\ \A k \in 1..Len(edit) :
            /\ unusedImports[k] = KthLast(k)
            /\ edit[k] = DeletionRange(text, KthLast(k))
        /\ \A k, l \in 1..Len(unusedImports) :
            k < l => unusedImports[k].start > unusedImports[l].start

\* C6 witness: a batch of three deletions, not all of the same line.
C6_Witness ==
    /\ pc = "applying"
    /\ Len(found) = 3
    /\ edit[1] # edit[3]

\* C7: the invocation that follows a successful removal finds nothing.
C7_Idempotent ==
    (Analysed /\ run >= 2 /\ prev = "ok") => found = <<>>

\* C8: on the end-to-end scenario there is one finding, the React import, and
\* the applied batch leaves the three other lines, in order.
C8_EndToEnd ==
    (Analysed /\ text = EndToEndText) =>
        /\ Len(found) = 1
        /\ found[1].importName = <<"React">>
        /\ found[1].line = 1
        /\ applied = "ok" => doc = SubSeq(EndToEndText, 5, Len(EndToEndText))

\* C8 witness: the batch planned for the scenario has been applied.
C8_Witness ==
    /\ text = EndToEndText
    /\ pc = "done"
    /\ applied = "ok"
    /\ Len(doc) = Len(EndToEndText) - 4

\* C9: a record without binding names is never the target of a finding.
C9_SideEffectExempt ==
    Analysed =>
        \A r \in Elems(imports) :
            r.importedNames = <<>> =>
                \A f \in Elems(found) \cup Elems(unusedImports) : f.start # r.start

\* C9 witness: an import with a clause that declares no names is not flagged
\* while another import is, the usage set being empty.
C9_Witness ==
    /\ Analysed
    /\ applied = "ok"
    /\ usedIdentifiers = {}
    /\ found # <<>>
    /\ \E r \in Elems(imports) : r.importedNames = <<>> /\ r.end = r.node + 3

\* Indexes of the identifier tokens of the text outside import statements.
OutsideIdents ==
    {j \in 1..Len(text) :
        /\ text[j].k = "id"
        /\ \A r \in Elems(imports) : (j - 1) \notin StatementOffsets(r)}

\* Indexes of the aliased specifiers of the statement of record r.
AliasedIn(r) ==
    {j \in 1..Len(text) :
        /\ (j - 1) \in StatementOffsets(r)
        /\ text[j].k = "named"
        /\ text[j].p # ""}

\* C10: a statement with an aliased specifier is not flagged when the alias or
\* the original name occurs as an identifier outside import statements.
C10_AliasSafety ==
    Analysed =>
        \A r \in Elems(imports) : \A j \in AliasedIn(r) :
            (\E u \in OutsideIdents : text[u].n \in {text[j].n, text[j].p}) =>
                \A f \in Elems(found) : f.start # r.start

\* C10 witness: only the original name of an aliased specifier is referenced.
C10_Witness ==
    /\ Analysed
    /\ \E r \in Elems(imports) : \E j \in AliasedIn(r) :
        /\ \E u \in OutsideIdents : text[u].n = text[j].p
        /\ \A u \in OutsideIdents : text[u].n # text[j].n

\* Indexes of the tokens of the text outside import statements.
OutsideTokens ==
    {j \in 1..Len(text) : \A r \in Elems(imports) : (j - 1) \notin StatementOffsets(r)}

\* An identifier with text x occurs outside import statements: on its own, as
\* the object or the member of a property access, as a tag name, or as a
\* specifier that has lost its `import` keyword.
OccursOutside(x) ==
    \E j \in OutsideTokens :
        \/ text[j].k \in {"id", "jsxself", "jsxopen", "default", "ns"} /\ text[j].n = x
        \/ text[j].k \in {"access", "named"} /\ x \in {text[j].n, text[j].p}

\* Indexes of the binding tokens of the statement of record r.
BindingsIn(r) ==
    {j \in 1..Len(text) : (j - 1) \in StatementOffsets(r) /\ text[j].k \in BindingKinds}

\* The statement of record r is not the target of a finding.
Retained(r) == \A f \in Elems(found) : f.start # r.start

\* C11: a statement whose only binding is a namespace alias X is retained if
\* and only if an identifier with text X occurs outside import statements, the
\* object of a property access X.member included.
C11_NamespaceCounting ==
    Analysed =>
        \A r \in Elems(imports) : \A j \in BindingsIn(r) :
            (BindingsIn(r) = {j} /\ text[j].k = "ns") =>
                (Retained(r) <=> OccursOutside(text[j].n))

\* C11 witness: a namespace import is retained because its alias is the object
\* of a property access, and occurs nowhere else outside imports.
C11_Witness ==
    /\ Analysed
    /\ found # <<>>
    /\ \E r \in Elems(imports) : \E j \in BindingsIn(r) :
        /\ BindingsIn(r) = {j}
        /\ text[j].k = "ns"
        /\ Retained(r)
        /\ \A u \in OutsideTokens : text[u].n = text[j].n => text[u].k = "access"

\* C12: in a markup-enabled variant, the tag name of an opening or
\* self-closing element is in the usage set, and an import that binds the name
\* is not flagged.
C12_MarkupUsage ==
    (Analysed /\ languageId \in {"javascriptreact", "typescriptreact"}) =>
        \A j \in OutsideTokens :
            text[j].k \in {"jsxself", "jsxopen"} =>
                /\ text[j].n \in usedIdentifiers
                /\ \A r \in Elems(imports) :
                    text[j].n \in Elems(r.importedNames) => Retained(r)

\* C12 witness: of three imports in a markup-enabled text, the two whose names
\* are tag names are kept and the third is removed.
C12_Witness ==
    /\ Analysed
    /\ languageId = "typescriptreact"
    /\ text = MarkupText
    /\ applied = "ok"
    /\ Len(found) = 1
    /\ found[1].importName = <<"Box">>

\* The text holds no import statement.
NoImports == \A j \in 1..Len(text) : text[j].k # "import"

\* C13: for a text without import statements there are no findings, no edit is
\* issued and the document keeps its text.
C13_NoOpSafety ==
    (Analysed /\ NoImports) =>
        /\ found = <<>>
        /\ unusedImports = <<>>
        /\ edit = <<>>
        /\ applyCalls = 0
        /\ writes = 0
        /\ doc = text
        /\ pc = "done"
        /\ message = MsgNoUnused

\* C13 witness: a first invocation on a text of statements that are no imports.
C13_Witness ==
    /\ Analysed
    /\ NoImports
    /\ run = 1
    /\ usedIdentifiers # {}
    /\ LineCount(text) >= 2

\* C14: when the host reports that it could not apply the batch, the handler
\* reports a failure and does not report that unused imports were removed.
C14_ApplyFailureReported ==
    (pc = "done" /\ applied \in {"refused", "threw"}) =>
        /\ message = MsgError
        /\ message # MsgRemoved

\* C15: when the parser cannot build a tree, the handler makes no edit and
\* shows the failure with the parser's message.
C15_ParseFailure ==
    (pc = "done" /\ editor /\ isSupportedFile(languageId) /\ ~parses) =>
        /\ message = MsgError
        /\ errorMessage = ParserMessage
        /\ found = <<>>
        /\ edit = <<>>
        /\ applyCalls = 0
        /\ writes = 0
        /\ doc = text

\* C15 witness: the parser throws on the text of the scenario.
C15_Witness ==
    /\ pc = "done"
    /\ ~parses
    /\ editor
    /\ text = EndToEndText
    /\ doc = EndToEndText

\* The command has returned without analysis and without edit.
ReturnedEarly ==
    /\ pc = "done"
    /\ text = <<>>
    /\ imports = <<>>
    /\ found = <<>>
    /\ edit = <<>>
    /\ applyCalls = 0
    /\ writes = 0

\* The command has gone past its two checks, into the try block.
Proceeded ==
    /\ message \notin {MsgNoEditor, MsgUnsupported}
    /\ parses /\ found = <<>> => message = MsgNoUnused
    /\ found # <<>> => applyCalls = 1

FourIds == {"javascript", "typescript", "javascriptreact", "typescriptreact"}

\* C16, as claimed: without an active editor, or on a document of another
\* language, there is no analysis and no edit, and the unsupported kind is
\* reported; for the four supported ids the command proceeds to analysis.
C16_AsClaimed ==
    pc # "idle" =>
        /\ (~editor \/ languageId \notin FourIds) =>
                ReturnedEarly /\ message = MsgUnsupported
        /\ (editor /\ languageId \in FourIds) => Proceeded

\* C16, amended: as claimed, but without an active editor what is reported is
\* that no active editor was found.
C16_Gate ==
    pc # "idle" =>
        /\ (editor /\ languageId \notin FourIds) =>
                ReturnedEarly /\ message = MsgUnsupported
        /\ ~editor => ReturnedEarly /\ message = MsgNoEditor
        /\ (editor /\ languageId \in FourIds) => Proceeded

\* C16 witness: the command has refused a document of another language.
C16_Witness ==
    /\ pc = "done"
    /\ editor
    /\ languageId = "python"
    /\ doc = EndToEndText
    /\ message = MsgUnsupported

\* C17: an invocation writes to the document at most once. Analysis and
\* planning leave the document as the snapshot was taken, and applyEdit is
\* called exactly once when there is a finding and not at all otherwise.
C17_SingleWrite ==
    /\ writes <= 1
    /\ ~Analysed => applyCalls = 0 /\ writes = 0
    /\ Analysed => applyCalls = (IF found # <<>> THEN 1 ELSE 0)
    /\ (Analysed /\ applied # "ok") => doc = text /\ writes = 0
    /\ applied = "ok" => writes = 1 /\ applyCalls = 1

\* C17 witness: a batch of several deletions has been applied in one call.
C17_Witness ==
    /\ pc = "done"
    /\ applied = "ok"
    /\ Len(edit) >= 2
    /\ applyCalls = 1
    /\ writes = 1
    /\ doc # text

\* The import statements of the snapshot that the batch deletes entirely.
RemovedStatements ==
    {r \in Elems(imports) : StatementOffsets(r) \subseteq Deleted(text, edit)}

\* C18: the summary is "No unused imports found" exactly when there is no
\* finding; otherwise the count shown is the number of findings, and that is
\* the number of import statements the applied batch removes from the text.
C18_Summary ==
    (Analysed /\ pc = "done" /\ applied # "threw") =>
        /\ message = MsgNoUnused <=> found = <<>>
        /\ found # <<>> =>
            /\ message = MsgRemoved
            /\ count = Len(found)
            /\ applied = "ok" => count = Cardinality(RemovedStatements)

\* The local names the statement of record r declares, one per binding, in
\* the order of declaration.
DeclaredNames(r) ==
    LET c == SelectSeq(SubSeq(text, r.node + 2, r.end),
                       LAMBDA x : x.k \in {"default", "named", "ns"})
    IN  [i \in 1..Len(c) |-> c[i].n]

\* C19: the display names of a finding are the names its statement declares,
\* in order, each declared binding once.
C19_DisplayNames ==
    Analysed =>
        \A f \in Elems(found) : f.importName = DeclaredNames(RecordOf(f))

\* C20: the line of a finding is one plus the number of line terminators before
\* its start offset, and the deletion planned for it covers that line of the
\* text (counted from 1), and nothing else.
C20_LineOfFinding ==
    Planned =>
        \A k \in 1..Len(unusedImports) :
            LET f == unusedImports[k]
            IN  /\ f.line = 1 + Cardinality({j \in 1..f.start : text[j].k = "nl"})
                /\ edit[k].start = [line |-> f.line - 1, character |-> 0]
                /\ Covered(text, edit[k]) =
                       {o \in 0..(Len(text) - 1) :
                           Cardinality({j \in 1..o : text[j].k = "nl"}) = f.line - 1}

\* C20 witness: a finding on a line after the first.
C20_Witness ==
    /\ Planned
    /\ \E k \in 1..Len(unusedImports) :
        /\ unusedImports[k].line >= 2
        /\ Covered(text, edit[k]) # {}

\* Indexes of the `import` keywords of the snapshot, in ascending order.
ImportKeywords == {j \in 1..Len(text) : text[j].k = "import"}

\* The names the syntax of tokens from..to of the snapshot binds: a default
\* binding or a namespace alias gives its local name, a named specifier its
\* local name and then, when aliased, its original name.
RECURSIVE NamesOfSyntax(_, _)
NamesOfSyntax(from, to) ==
    IF from > to THEN <<>>
    ELSE LET x == text[from]
             own == IF x.k \in {"default", "ns"} THEN <<x.n>>
                    ELSE IF x.k = "named" /\ x.p = "" THEN <<x.n>>
                    ELSE IF x.k = "named" THEN <<x.n, x.p>>
                    ELSE <<>>
         IN  own \o NamesOfSyntax(from + 1, to)

\* C21: collectImports yields one record per import statement, in source
\* order, and the names of a record are those the statement's own tokens bind:
\* none when it has no clause.
C21_RecordPerStatement ==
    Analysed =>
        /\ Len(imports) = Cardinality(ImportKeywords)
        /\ \A k \in 1..Len(imports) :
            /\ imports[k].node + 1 \in ImportKeywords
            /\ Cardinality({j \in ImportKeywords : j <= imports[k].node + 1}) = k
            /\ imports[k].importedNames =
                    NamesOfSyntax(imports[k].node + 2, imports[k].end)
            /\ imports[k].end = imports[k].node + 2 /\ text[imports[k].end].k = "module"
                    => imports[k].importedNames = <<>>

\* C21 witness: an aliased specifier and a namespace alias of the same local
\* name in two statements, with identifiers used elsewhere in the file.
C21_Witness ==
    /\ Analysed
    /\ Len(imports) = 2
    /\ usedIdentifiers # {}
    /\ \E k, l \in 1..2 :
        /\ imports[k].importedNames = <<"b", "a">>
        /\ imports[l].importedNames = <<"b">>
        /\ text[imports[l].node + 2].k = "ns"

\* The identifier texts of the tokens outside import statements.
NamesOutside ==
    UNION {IF text[j].k \in {"id", "jsxself", "jsxopen", "default", "ns"}
              THEN {text[j].n}
           ELSE IF text[j].k \in {"access", "named"}
              THEN {text[j].n, text[j].p} \ {""}
           ELSE {} : j \in OutsideTokens}

\* C22: the usage set holds the text of every identifier outside import
\* statements and no other name, and an import with names none of which
\* occurs outside import statements is flagged.
C22_UsageOutsideImports ==
    Analysed =>
        /\ usedIdentifiers = NamesOutside
        /\ \A r \in Elems(imports) :
            (r.importedNames # <<>> /\ Elems(r.importedNames) \cap NamesOutside = {})
                => ~Retained(r)

\* C22 witness: a flagged import shares a name with another import statement,
\* while other identifiers are used in the file.
C22_Witness ==
    /\ Analysed
    /\ usedIdentifiers # {}
    /\ \E r, q \in Elems(imports) :
        /\ r.start # q.start
        /\ ~Retained(r)
        /\ Elems(r.importedNames) \cap Elems(q.importedNames) # {}

\* =========================================================================
\* Part 2: AutoCloseTabsManager (commands kazuki.AutoCloseTabs and
\* kazuki.ManualCloseTabs). Time is abstracted: a pending timer may fire at
\* any moment, and a promise the host owes may be settled at any moment.
\* =========================================================================

\* Most timers setTimeout creates in one behaviour.
MaxTimers == 2

\* Most command handlers suspended at their await at one time.
MaxCmds == 2

\* vscode.window.tabGroups.all, in order.
allTabs == {1, 2}

\* The tabs a group can hold.
TabIds == {1, 2}

\* The imports command is not used in this part.
ImportsIdle ==
    /\ editor = FALSE
    /\ languageId = ""
    /\ doc = <<>>
    /\ parses = TRUE
    /\ pc = "idle"
    /\ text = <<>>
    /\ imports = <<>>
    /\ usedIdentifiers = {}
    /\ found = <<>>
    /\ unusedImports = <<>>
    /\ edit = <<>>
    /\ applied = "none"
    /\ message = MsgNone
    /\ run = 1
    /\ prev = "none"
    /\ count = 0
    /\ errorMessage = ""
    /\ applyCalls = 0
    /\ writes = 0

\* The fields and host registrations enableAutoClose and disableAutoClose touch.
Mgr ==
    [listener |-> activeEditorChangeListener, listeners |-> listeners,
     closeTimeout |-> closeTimeout, timers |-> timers, cancelled |-> cancelled]

SetMgr(m) ==
    /\ activeEditorChangeListener' = m.listener
    /\ listeners' = m.listeners
    /\ closeTimeout' = m.closeTimeout
    /\ timers' = m.timers
    /\ cancelled' = m.cancelled

\* Handles of the pending timers.
PendingIds(ts) == {t.id : t \in ts}

\* clearTimeout(h): a no-op for a timer that has fired or was cleared.
clearTimeout(m, h) ==
    [m EXCEPT !.timers = {t \in @ : t.id # h},
              !.cancelled = IF h \in PendingIds(m.timers) THEN @ \cup {h} ELSE @]

\* enableAutoClose, lines 71-82.
enableAutoClose(m) ==
    IF m.listener THEN m
    ELSE [m EXCEPT !.listener = TRUE, !.listeners = @ + 1]

\* Mutant: disableAutoClose leaves the pending timeout alone.
disableAutoCloseKeepsTimer(m) ==
    IF m.listener THEN [m EXCEPT !.listener = FALSE, !.listeners = @ - 1] ELSE m

\* disableAutoClose, lines 84-97.
disableAutoClose(m) ==
    LET a == IF m.listener
             THEN [m EXCEPT !.listener = FALSE, !.listeners = @ - 1]
             ELSE m
    IN  IF a.closeTimeout # 0
        THEN [clearTimeout(a, a.closeTimeout) EXCEPT !.closeTimeout = 0]
        ELSE a

\* loadSettings, lines 17-27.
loadSettings(m, isEnabled) ==
    IF isEnabled THEN enableAutoClose(m) ELSE disableAutoClose(m)

\* A closeOtherTabs invocation that has not started.
NoRun == [st |-> "none", group |-> 0, request |-> {}, visited |-> {}, missed |-> {}]

\* The tabs of group g that are not its active tab.
NonActive(tb, ac, g) == tb[g] \ {ac[g]}

\* closeOtherTabs, lines 128-134: the tabs with !tab.isActive.
tabsToClose(tb, ac, g) == {t \in tb[g] : t # ac[g]}

\* Mutant: only the first tab group is visited.
NextGroupsFirstOnly(from) == {g \in {1} : g >= from}

\* The groups the loop of line 127 has still to visit, from group `from` on.
NextGroups(from) == {g \in allTabs : g >= from}

\* closeOtherTabs from group `from` on, up to its next await or its end: groups
\* without tabs to close are passed (line 137), the first other one gets a
\* close request.
Advance(r, from, tb, ac) ==
    LET S == {g \in NextGroups(from) : tabsToClose(tb, ac, g) # {}}
        upto == IF S = {} THEN NextGroups(from) ELSE {g \in NextGroups(from) : g <= Min(S)}
        miss == {<<g, t>> \in upto \X TabIds :
                    t \in NonActive(tb, ac, g) /\ t \notin tabsToClose(tb, ac, g)}
    IN  IF S = {}
        THEN [st |-> "done", group |-> 0, request |-> {},
              visited |-> r.visited \cup upto, missed |-> r.missed \cup miss]
        ELSE [st |-> "awaiting", group |-> Min(S),
              request |-> tabsToClose(tb, ac, Min(S)),
              visited |-> r.visited \cup upto, missed |-> r.missed \cup miss]

\* A command handler suspended at its await: config.update has been called.
Handler(cmd) == [cmd |-> cmd, st |-> "awaiting", before |-> enabled]

\* The value the handler of a command writes to the setting (lines 56, 64).
ValueOf(cmd) == cmd = "AutoCloseTabs"

\* The handler h, returned: the setting and the listeners it leaves, and the
\* close requests it made.
Returned(h, m) ==
    [cmd |-> h.cmd, before |-> h.before, after |-> enabled,
     listening |-> m.listeners, closes |-> 0]

\* Tab groups the window starts with.
InitialTabs ==
    { [tabs |-> [g \in allTabs |-> TabIds], active |-> [g \in allTabs |-> 1]],
      [tabs |-> [g \in allTabs |-> IF g = 1 THEN {1} ELSE {}],
       active |-> [g \in allTabs |-> IF g = 1 THEN 1 ELSE 0]] }

\* The state the constructor leaves: loadSettings has run (line 11).
InitTabs ==
    /\ ImportsIdle
    /\ FolderIdle
    /\ enabled \in BOOLEAN
    /\ activeEditorChangeListener = enabled
    /\ listeners = (IF enabled THEN 1 ELSE 0)
    /\ closeTimeout = 0
    /\ currentActiveEditor = <<>>
    /\ timers = {}
    /\ nextTimer = 0
    /\ closing = [i \in 1..MaxTimers |-> NoRun]
    /\ handlers = EmptyBag
    /\ completed = NoHandler
    /\ disposed = FALSE
    /\ \E w \in InitialTabs : tabs = w.tabs /\ active = w.active
    /\ fired = {}
    /\ cancelled = {}

\* The command kazuki.AutoCloseTabs: autoCloseHandler, lines 54-56, up to
\* its await.
autoCloseHandlerCalled ==
    /\ ~disposed
    /\ BagCardinality(handlers) < MaxCmds
    /\ handlers' = handlers (+) SetToBag({Handler("AutoCloseTabs")})
    /\ UNCHANGED <<enabled, activeEditorChangeListener, listeners, closeTimeout,
                   currentActiveEditor, timers, nextTimer, closing, completed,
                   disposed, tabs, active, fired, cancelled>>
    /\ UNCHANGED <<vars, folderVars>>

\* The command kazuki.ManualCloseTabs: manualCloseHandler, lines 62-64, up to
\* its await.
manualCloseHandlerCalled ==
    /\ ~disposed
    /\ BagCardinality(handlers) < MaxCmds
    /\ handlers' = handlers (+) SetToBag({Handler("ManualCloseTabs")})
    /\ UNCHANGED <<enabled, activeEditorChangeListener, listeners, closeTimeout,
                   currentActiveEditor, timers, nextTimer, closing, completed,
                   disposed, tabs, active, fired, cancelled>>
    /\ UNCHANGED <<vars, folderVars>>

\* The host writes the setting a handler asked for; when the value changes and
\* the listener of lines 44-49 is still registered, loadSettings runs.
ConfigUpdated(h) ==
    /\ BagIn(h, handlers)
    /\ h.st = "awaiting"
    /\ enabled' = ValueOf(h.cmd)
    /\ IF ValueOf(h.cmd) # enabled /\ ~disposed
       THEN SetMgr(loadSettings(Mgr, ValueOf(h.cmd)))
       ELSE UNCHANGED <<activeEditorChangeListener, listeners, closeTimeout, timers,
                        cancelled>>
    /\ handlers' = (handlers (-) SetToBag({h})) (+) SetToBag({[h EXCEPT !.st = "written"]})
    /\ UNCHANGED <<currentActiveEditor, nextTimer, closing, completed, disposed, tabs,
                   active, fired>>
    /\ UNCHANGED <<vars, folderVars>>

\* config.update rejects: the handler ends at its await.
ConfigUpdateFailed(h) ==
    /\ BagIn(h, handlers)
    /\ h.st = "awaiting"
    /\ handlers' = handlers (-) SetToBag({h})
    /\ UNCHANGED <<enabled, activeEditorChangeListener, listeners, closeTimeout,
                   currentActiveEditor, timers, nextTimer, closing, completed,
                   disposed, tabs, active, fired, cancelled>>
    /\ UNCHANGED <<vars, folderVars>>

\* Whether some group has a tab that is not its active tab.
OtherTabs == \E g \in allTabs : NonActive(tabs, active, g) # {}

\* autoCloseHandler after its await, lines 57-59.
autoCloseHandlerResumes(h) ==
    /\ BagIn(h, handlers)
    /\ h.st = "written"
    /\ h.cmd = "AutoCloseTabs"
    /\ LET m == enableAutoClose(Mgr)
       IN  /\ SetMgr(m)
           /\ completed' = Returned(h, m)
    /\ handlers' = handlers (-) SetToBag({h})
    /\ UNCHANGED <<enabled, currentActiveEditor, nextTimer, closing, disposed, tabs,
                   active, fired>>
    /\ UNCHANGED <<vars, folderVars>>

\* manualCloseHandler after its await, lines 66-68.
manualCloseHandlerResumes(h) ==
    /\ BagIn(h, handlers)
    /\ h.st = "written"
    /\ h.cmd = "ManualCloseTabs"
    /\ LET m == disableAutoClose(Mgr)
       IN  /\ SetMgr(m)
           /\ completed' = Returned(h, m)
    /\ handlers' = handlers (-) SetToBag({h})
    /\ UNCHANGED <<enabled, currentActiveEditor, nextTimer, closing, disposed, tabs,
                   active, fired>>
    /\ UNCHANGED <<vars, folderVars>>

\* The setting is changed from outside (the settings editor, settings.json):
\* lines 44-49.
ConfigChanged ==
    /\ enabled' = ~enabled
    /\ IF ~disposed
       THEN SetMgr(loadSettings(Mgr, ~enabled))
       ELSE UNCHANGED <<activeEditorChangeListener, listeners, closeTimeout, timers,
                        cancelled>>
    /\ UNCHANGED <<currentActiveEditor, nextTimer, closing, handlers, completed, disposed, tabs,
                   active, fired>>
    /\ UNCHANGED <<vars, folderVars>>

\* Mutant: the previous timeout is not cleared.
ClearExistingNot(m) == m

\* onActiveEditorChanged, lines 107-110.
ClearExisting(m) ==
    IF m.closeTimeout # 0 THEN clearTimeout(m, m.closeTimeout) ELSE m

\* onActiveEditorChanged, line 103, for a defined editor.
MaySchedule(isEnabled) == isEnabled

\* The active editor becomes tab t of group g (opened if need be). A registered
\* listener runs onActiveEditorChanged(editor), lines 99-121.
ActiveEditorChanged(g, t) ==
    /\ tabs' = [tabs EXCEPT ![g] = @ \cup {t}]
    /\ active' = [active EXCEPT ![g] = t]
    /\ IF listeners > 0 /\ MaySchedule(enabled)
       THEN /\ nextTimer < MaxTimers
            /\ LET m == ClearExisting(Mgr)
                   id == nextTimer + 1
               IN  /\ SetMgr([m EXCEPT !.closeTimeout = id,
                                       !.timers = @ \cup {[id |-> id, editor |-> <<g, t>>]}])
                   /\ nextTimer' = id
                   /\ currentActiveEditor' = <<g, t>>
       ELSE UNCHANGED <<activeEditorChangeListener, listeners, closeTimeout, timers,
                        cancelled, nextTimer, currentActiveEditor>>
    /\ UNCHANGED <<enabled, closing, handlers, completed, disposed, fired>>
    /\ UNCHANGED <<vars, folderVars>>

\* The active editor becomes undefined: onActiveEditorChanged(undefined)
\* returns at line 104.
NoActiveEditor ==
    /\ listeners > 0
    /\ UNCHANGED <<enabled, activeEditorChangeListener, listeners, closeTimeout,
                   currentActiveEditor, timers, nextTimer, closing, handlers, completed, disposed,
                   tabs, active, fired, cancelled>>
    /\ UNCHANGED <<vars, folderVars>>

\* The delay of a pending timer is over: lines 118-120 call closeOtherTabs,
\* which runs to its first await or to its end.
TimerFires(i) ==
    /\ i \in PendingIds(timers)
    /\ timers' = {t \in timers : t.id # i}
    /\ fired' = fired \cup {i}
    /\ closing' = [closing EXCEPT ![i] = Advance(NoRun, 1, tabs, active)]
    /\ UNCHANGED <<enabled, activeEditorChangeListener, listeners, closeTimeout,
                   currentActiveEditor, nextTimer, handlers, completed, disposed, tabs, active,
                   cancelled>>
    /\ UNCHANGED <<vars, folderVars>>

\* vscode.window.tabGroups.close resolves, true with the tabs closed or false
\* with the tabs kept, and closeOtherTabs goes on with the next group. A group
\* whose active tab was closed gets another active tab.
CloseResolves(i, ok) ==
    /\ closing[i].st = "awaiting"
    /\ LET g == closing[i].group
           left == IF ok THEN tabs[g] \ closing[i].request ELSE tabs[g]
       IN  /\ tabs' = [tabs EXCEPT ![g] = left]
           /\ \E a \in (IF active[g] \in left THEN {active[g]}
                        ELSE IF left = {} THEN {0} ELSE left) :
                 active' = [active EXCEPT ![g] = a]
           /\ closing' = [closing EXCEPT ![i] = Advance(closing[i], g + 1, tabs', active')]
    /\ UNCHANGED <<enabled, activeEditorChangeListener, listeners, closeTimeout,
                   currentActiveEditor, timers, nextTimer, handlers, completed, disposed, fired,
                   cancelled>>
    /\ UNCHANGED <<vars, folderVars>>

\* vscode.window.tabGroups.close rejects: the catch of lines 141-144 ends
\* closeOtherTabs.
CloseRejects(i) ==
    /\ closing[i].st = "awaiting"
    /\ closing' = [closing EXCEPT ![i].st = "failed", ![i].request = {}]
    /\ UNCHANGED <<enabled, activeEditorChangeListener, listeners, closeTimeout,
                   currentActiveEditor, timers, nextTimer, handlers, completed, disposed, tabs,
                   active, fired, cancelled>>
    /\ UNCHANGED <<vars, folderVars>>

\* dispose(), lines 180-189: the listener, the commands and the configuration
\* listener are disposed.
Dispose ==
    /\ ~disposed
    /\ disposed' = TRUE
    /\ SetMgr([disableAutoClose(Mgr) EXCEPT !.listeners = 0])
    /\ UNCHANGED <<enabled, currentActiveEditor, nextTimer, closing, handlers, completed, tabs,
                   active, fired>>
    /\ UNCHANGED <<vars, folderVars>>

\* The suspended handlers, in either state.
Suspended ==
    {[cmd |-> c, st |-> st, before |-> b] :
        c \in {"AutoCloseTabs", "ManualCloseTabs"}, st \in {"awaiting", "written"},
        b \in BOOLEAN}

\* The manager with its commands and the setting; the user moves between the
\* groups, to the active tab of each, and close requests stay unanswered.
NextTabs ==
    \/ autoCloseHandlerCalled
    \/ manualCloseHandlerCalled
    \/ \E h \in Suspended : ConfigUpdated(h)
    \/ \E h \in Suspended : ConfigUpdateFailed(h)
    \/ \E h \in Suspended : autoCloseHandlerResumes(h)
    \/ \E h \in Suspended : manualCloseHandlerResumes(h)
    \/ ConfigChanged
    \/ \E g \in allTabs : \E t \in {active[g]} \ {0} : ActiveEditorChanged(g, t)
    \/ NoActiveEditor
    \/ \E i \in 1..MaxTimers : TimerFires(i)
    \/ Dispose

SpecTabs == InitTabs /\ [][NextTabs]_allVars

\* The timers and closeOtherTabs; the commands are not invoked, tabs are opened
\* and the host answers the close requests. After dispose() only the calls of
\* closeOtherTabs that had started go on.
NextClose ==
    \/ ~disposed /\ ConfigChanged
    \/ \E g \in allTabs, t \in TabIds : ~disposed /\ ActiveEditorChanged(g, t)
    \/ NoActiveEditor
    \/ \E i \in 1..MaxTimers : TimerFires(i)
    \/ \E i \in 1..MaxTimers, ok \in BOOLEAN : CloseResolves(i, ok)
    \/ \E i \in 1..MaxTimers : CloseRejects(i)
    \/ Dispose

SpecClose == InitTabs /\ [][NextClose]_allVars

\* The event loop runs a timer whose delay is over, and the host settles the
\* promise of every close request.
FairClose ==
    /\ SpecClose
    /\ WF_allVars(\E i \in 1..MaxTimers : TimerFires(i))
    /\ WF_allVars(\E i \in 1..MaxTimers :
                    CloseResolves(i, TRUE) \/ CloseResolves(i, FALSE) \/ CloseRejects(i))

\* ------------------------------------------------- claims on the tabs manager

\* Timer i is pending: an editor change has scheduled closeOtherTabs.
Scheduled(i) == i \in PendingIds(timers)

\* closeOtherTabs, called by timer i, has returned after visiting every tab
\* group and requesting the close of every tab that was not active in its group.
RanAll(i) ==
    /\ closing[i].st = "done"
    /\ closing[i].visited = allTabs
    /\ closing[i].missed = {}

\* closeOtherTabs, called by timer i, has ended in its catch block: a close
\* request was rejected, and the groups after that one were not visited.
RanUntilRejected(i) ==
    /\ closing[i].st = "failed"
    /\ closing[i].visited = {g \in allTabs : g <= closing[i].group}
    /\ closing[i].missed = {}

\* C23, as claimed: a timer scheduled by a change to an editor while auto-close
\* is enabled, and not cancelled by a later change, a disable or a dispose,
\* leads to a closeOtherTabs that requests, in every tab group, the close of
\* every tab that is not the active tab of its group.
C23_AsClaimed ==
    \A i \in 1..MaxTimers : Scheduled(i) ~> (i \in cancelled \/ RanAll(i))

\* C23, amended: as claimed, unless the host rejects one of the close requests;
\* closeOtherTabs then ends at that group.
C23_ClosesOtherTabs ==
    \A i \in 1..MaxTimers :
        Scheduled(i) ~> (i \in cancelled \/ RanAll(i) \/ RanUntilRejected(i))

\* C23 witness: closeOtherTabs has run through both groups for the only timer
\* scheduled, and one tab is left in each group.
C23_Witness ==
    /\ nextTimer = 1
    /\ fired = {1}
    /\ RanAll(1)
    /\ \A g \in allTabs : tabs[g] = {active[g]}
    /\ active[2] = 2

\* C24: a call of the handler of kazuki.AutoCloseTabs toggles: started with the
\* setting true it leaves it false and the listener removed, started with the
\* setting false it leaves it true and the listener registered.
C24_Toggles ==
    completed.cmd = "AutoCloseTabs" =>
        /\ completed.before => (~completed.after /\ completed.listening = 0)
        /\ ~completed.before => (completed.after /\ completed.listening = 1)

\* C25: the handler of kazuki.ManualCloseTabs returns with the setting as it
\* found it and, when there are tabs that are not active, with a close of them
\* requested.
C25_ManualClose ==
    completed.cmd = "ManualCloseTabs" =>
        /\ completed.after = completed.before
        /\ OtherTabs => completed.closes > 0

\* C27: when the manager is not disposed and no handler is suspended at its
\* await, at most one active-editor listener is registered, and one is
\* registered if and only if the setting is true.
C27_ListenerIffEnabled ==
    (~disposed /\ handlers = EmptyBag) =>
        /\ listeners <= 1
        /\ listeners = 1 <=> enabled

C29_DisableCancels ==
    /\ ~activeEditorChangeListener =>
            timers = {} /\ closeTimeout = 0 /\ listeners = 0
    /\ \A i \in cancelled : i \notin fired /\ closing[i].st = "none"

\* C29 witness: the disable command has cancelled the pending timer, and no
\* timer has fired.
C29_Witness ==
    /\ completed.cmd = "ManualCloseTabs"
    /\ ~activeEditorChangeListener
    /\ cancelled = {1}
    /\ nextTimer = 1
    /\ fired = {}
    /\ ~disposed


\* ===================================================================
\* Part 3: FolderGeneratorManager.createFolderStructure
\* (src/vsc_extension/src/folderGenerator.ts, lines 202-268).
\*
\* A name is a sequence of characters, a path the sequence of the names under
\* basePath. A FolderStructure maps a key to a string[] (lines 6-8); it is
\* held as its entries in the order Object.entries gives them.
\* ===================================================================

\* Most keys of a structure.
MaxKeys == 2

\* The names that occur as keys and as listed children.
FolderNames == { <<"a">>, <<"b">>, <<"f", ".", "t">>, <<"0">> }

\* The lists of children an entry has.
ChildLists == { <<>>, <<<<"b">>>>, <<<<"a">>, <<"f", ".", "t">>>> }

\* The decimal digits, for the index keys of an array.
Digit == <<"0", "1", "2", "3", "4", "5", "6", "7", "8", "9">>

\* The argument basePath: the root of the paths.
basePath == <<>>

\* path.join(p, name), for a name without separator that is not "." or "..".
join(p, name) == Append(p, name)

\* /\.[^/.]+$/.test(element), line 240: a dot followed, up to the end, by one
\* or more characters that are neither a slash nor a dot.
isFile(element) ==
    \E i \in 1..Len(element) :
        /\ element[i] = "."
        /\ i < Len(element)
        /\ \A j \in (i + 1)..Len(element) : element[j] \notin {"/", "."}

\* An array index is an integer key: Object.entries lists integer keys
\* first, in ascending order, before the other keys in insertion order.
IsIndex(name) == Len(name) = 1 /\ \E d \in 1..Len(Digit) : Digit[d] = name[1]

\* Object.keys of an array: its indexes as strings, "0", "1", ...
ObjectKeys(children) == [i \in 1..Len(children) |-> <<Digit[i]>>]

\* structure[element], line 238: the children of the key, or undefined.
Undefined == <<"undefined">>

Lookup(s, element) ==
    IF \E i \in 1..Len(s) : s[i].key = element
    THEN LET i == CHOOSE k \in 1..Len(s) : s[k].key = element IN s[i].children
    ELSE Undefined

\* The structures createFolderStructure is called with.
Structures ==
    LET Entry == [key : FolderNames, children : ChildLists]
        Seqs == UNION { [1..n -> Entry] : n \in 0..MaxKeys }
    IN { s \in Seqs :
           /\ \A i, j \in 1..Len(s) : i # j => s[i].key # s[j].key
           /\ \A i \in 2..Len(s) : ~IsIndex(s[i].key) }

\* The file system under basePath when the function is called.
InitialDirs == { {}, { <<<<"a">>>>, <<<<"a">>, <<"a">>>> } }

InitialFiles == { {}, { <<<<"b">>>> }, { <<<<"f", ".", "t">>>> } }

\* fs.existsSync(p).
existsSync(p) == p = basePath \/ p \in dirs \/ p \in files

\* The path itself and the directories above it, below basePath.
Prefixes(p) == { SubSeq(p, 1, i) : i \in 1..Len(p) }

\* fs.mkdirSync(p, {recursive: true}) throws when the path runs through a file.
mkdirThrows(p) == Prefixes(p) \cap files # {}

\* fs.writeFileSync(p, '') throws when p is a directory or has no directory
\* to be in.
writeThrows(p) ==
    \/ p \in dirs
    \/ Len(p) = 0
    \/ Len(p) > 1 /\ SubSeq(p, 1, Len(p) - 1) \notin dirs

\* The catch block of the loop body, lines 263-265: the error is logged and
\* the while loop goes on.
catchErrorRethrows(at) == "failed"

catchError(at) == at

\* The call: lines 203-209.
InitFolder ==
    /\ ImportsIdle
    /\ TabsIdle
    /\ structure \in Structures
    /\ createdPaths = {}
    /\ queue = <<>>
    /\ outer = 0
    /\ itemName = <<>>
    /\ dirs \in InitialDirs
    /\ files \in InitialFiles
    /\ fpc = "for"
    /\ processed = <<>>
    /\ errors = {}

\* One turn of the for loop, lines 211-225: the next entry is skipped when
\* its key is in createdPaths and queued under basePath otherwise.
NextItem ==
    /\ fpc = "for"
    /\ outer < Len(structure)
    /\ outer' = outer + 1
    /\ itemName' = structure[outer + 1].key
    /\ IF itemName' \in createdPaths
       THEN UNCHANGED <<queue, fpc>>
       ELSE /\ queue' = Append(queue, [element |-> itemName',
                                       path |-> join(basePath, itemName')])
            /\ fpc' = "while"
    /\ UNCHANGED <<structure, createdPaths, dirs, files, processed, errors>>
    /\ UNCHANGED <<vars, tabsVars>>

\* The for loop has taken every entry: the function returns (line 268).
Return ==
    /\ fpc = "for"
    /\ outer = Len(structure)
    /\ fpc' = "done"
    /\ UNCHANGED <<structure, createdPaths, queue, outer, itemName, dirs, files,
                   processed, errors>>
    /\ UNCHANGED <<vars, tabsVars>>

\* The while loop ends, line 228: back to the for loop.
QueueEmpty ==
    /\ fpc = "while"
    /\ queue = <<>>
    /\ fpc' = "for"
    /\ UNCHANGED <<structure, createdPaths, queue, outer, itemName, dirs, files,
                   processed, errors>>
    /\ UNCHANGED <<vars, tabsVars>>

\* Lines 229-234: the element taken from the queue is in createdPaths.
AlreadyCreated ==
    /\ fpc = "while"
    /\ queue # <<>>
    /\ Head(queue).element \in createdPaths
    /\ queue' = Tail(queue)
    /\ UNCHANGED <<structure, createdPaths, outer, itemName, dirs, files, fpc,
                   processed, errors>>
    /\ UNCHANGED <<vars, tabsVars>>

\* Lines 229-247 for a file: it is written at currentPath unless something
\* exists there; throws says that the host refuses the write.
CreateFile(throws) ==
    /\ fpc = "while"
    /\ queue # <<>>
    /\ LET element == Head(queue).element
           currentPath == Head(queue).path
       IN /\ element \notin createdPaths
          /\ isFile(element)
          /\ throws => ~existsSync(currentPath)
          /\ createdPaths' = createdPaths \cup {element}
          /\ processed' = Append(processed, element)
          /\ queue' = Tail(queue)
          /\ IF existsSync(currentPath)
             THEN UNCHANGED <<files, errors, fpc>>
             ELSE IF throws \/ writeThrows(currentPath)
                  THEN /\ errors' = errors \cup {"fs"}
                       /\ fpc' = catchError(fpc)
                       /\ UNCHANGED files
                  ELSE /\ files' = files \cup {currentPath}
                       /\ UNCHANGED <<errors, fpc>>
    /\ UNCHANGED <<structure, outer, itemName, dirs>>
    /\ UNCHANGED <<vars, tabsVars>>

\* Lines 229-261 for a folder: the directory itemPath is made unless
\* something exists there, then the keys of structure[element] are queued
\* under itemPath; Object.keys(undefined) throws a TypeError. throws says
\* that the host refuses the mkdir.
CreateFolder(throws) ==
    /\ fpc = "while"
    /\ queue # <<>>
    /\ LET element == Head(queue).element
           currentPath == Head(queue).path
           itemPath == join(currentPath, element)
           children == Lookup(structure, element)
           made == ~existsSync(itemPath) /\ ~throws /\ ~mkdirThrows(itemPath)
           failed == ~existsSync(itemPath) /\ ~made
       IN /\ element \notin createdPaths
          /\ ~isFile(element)
          /\ throws => ~existsSync(itemPath)
          /\ processed' = Append(processed, element)
          /\ createdPaths' = createdPaths \cup {element}
                                \cup (IF made THEN {itemName} ELSE {})
          /\ dirs' = (IF made THEN dirs \cup Prefixes(itemPath) ELSE dirs)
          /\ IF failed
             THEN /\ errors' = errors \cup {"fs"}
                  /\ fpc' = catchError(fpc)
                  /\ queue' = Tail(queue)
             ELSE IF children = Undefined
                  THEN /\ errors' = errors \cup {"TypeError"}
                       /\ fpc' = catchError(fpc)
                       /\ queue' = Tail(queue)
                  ELSE /\ queue' = Tail(queue) \o
                                   [i \in 1..Len(children) |->
                                      [element |-> ObjectKeys(children)[i],
                                       path |-> join(itemPath, ObjectKeys(children)[i])]]
                       /\ UNCHANGED <<errors, fpc>>
    /\ UNCHANGED <<structure, outer, itemName, files>>
    /\ UNCHANGED <<vars, tabsVars>>

NextFolder ==
    \/ NextItem
    \/ Return
    \/ QueueEmpty
    \/ AlreadyCreated
    \/ \E throws \in BOOLEAN : CreateFile(throws)
    \/ \E throws \in BOOLEAN : CreateFolder(throws)

SpecFolder == InitFolder /\ [][NextFolder]_allVars

\* createFolderStructure has no await: once called it runs on to its return.
FairFolder == SpecFolder /\ WF_allVars(NextFolder)


\* ------------------------------------------------ claims on part 3

\* No call of the file system was refused or ran into something in the way.
NoFsError == "fs" \notin errors

\* The place the structure gives a listed child: inside its folder's directory.
ListedPath(key, child) == join(join(basePath, key), child)

\* C26: When createFolderStructure has returned and no call of the file
\* system has failed, every folder key of the structure has its directory
\* under basePath, and every child listed for a folder exists under its
\* listed name inside that directory, a file as a file and a folder as a
\* directory.
C26_CompleteStructure ==
    (fpc = "done" /\ NoFsError) =>
        \A i \in 1..Len(structure) :
            LET key == structure[i].key
                children == structure[i].children
            IN ~isFile(key) =>
                 /\ join(basePath, key) \in dirs
                 /\ \A j \in 1..Len(children) :
                        IF isFile(children[j])
                        THEN ListedPath(key, children[j]) \in files
                        ELSE ListedPath(key, children[j]) \in dirs

\* No element occurs twice in the sequence.
NoDup(s) == \A i, j \in 1..Len(s) : i # j => s[i] # s[j]

\* Every key of the structure has been taken up.
AllKeysTaken == \A i \in 1..Len(structure) : structure[i].key \in createdPaths

\* C30: createFolderStructure terminates for every structure, also one whose
\* entries name each other or themselves: no element gets past the
\* createdPaths check twice, and whatever errors are caught the function
\* reaches its return with the queue empty and every key of the structure
\* taken up.
C30_Terminates ==
    /\ [](NoDup(processed))
    /\ <>(fpc = "done" /\ queue = <<>> /\ AllKeysTaken)

\* C30 witness: a structure whose two entries list each other has been gone
\* through to the return, a mkdir was refused and a TypeError was caught on
\* the way, an element found in createdPaths was skipped, and elements were
\* processed after the failures.
C30_Witness ==
    /\ fpc = "done"
    /\ structure = << [key |-> <<"a">>, children |-> <<<<"b">>>>],
                      [key |-> <<"b">>, children |-> <<<<"a">>, <<"f", ".", "t">>>>] >>
    /\ errors = {"fs", "TypeError"}
    /\ processed = << <<"a">>, <<"0">>, <<"b">>, <<"1">> >>
    /\ <<<<"b">>, <<"b">>, <<"1">>, <<"1">>>> \in dirs

====
